---- MODULE Spec2Model ----
(***************************************************************************)
(* Reviewer-assignment store of prreviewer (internal/storage/postgres.go). *)
(*                                                                         *)
(* The committed database is the four relations of the migration: teams,   *)
(* users, pull_requests and assigned_reviewers.  Request handlers run as   *)
(* processes.  AddTeam, SetUserActive and MergePR change the database in   *)
(* one step (a single statement, or a transaction of blind writes).        *)
(* CreatePR runs at the default isolation level (READ COMMITTED): each of  *)
(* its statements reads the database as committed at that moment.          *)
(* Reassign and MassDeactivate run at SERIALIZABLE: every read sees the    *)
(* snapshot taken at the first statement, and the commit fails with        *)
(* SQLSTATE 40001 when a row the transaction locks or writes was changed   *)
(* by a transaction that committed after the snapshot, or when another     *)
(* serializable transaction committed a write to something it read.        *)
(***************************************************************************)
EXTENDS Integers, Sequences, FiniteSets, TLC

\* ------------------------------------------------------------------ bounds
NumUsers == 3
NumPRs == 1
NumProcs == 2
MaxMembers == 3
MaxClock == 3

\* ------------------------------------------------------- program constants
StatusOpen == "OPEN"
StatusMerged == "MERGED"
ErrTeamExists == "team already exists"
ErrPRExists == "pr already exists"
ErrPRMerged == "pr merged"
ErrNotAssigned == "reviewer not assigned"
ErrNoCandidate == "no candidate"
ErrUserNotFound == "user not found"
ErrPRNotFound == "pr not found"
ErrTeamNotFound == "team not found"
\* errors of the driver, recognised by their text
ErrSerialization == "SQLSTATE 40001"
ErrDuplicateKey == "duplicate key"
\* the error of a statement whose request context was cancelled
ErrCanceled == "context canceled"
\* ctx.Err() after the deadline of the request context
ErrDeadlineExceeded == "context deadline exceeded"
\* sql.ErrTxDone
ErrTxDone == "sql: transaction has already been committed or rolled back"
\* the other text isSerializationError looks for
ErrCouldNotSerialize == "could not serialize access"
\* a storage error that no classifier recognises
ErrStorageFault == "driver: bad connection"
\* err == nil
Nil == "nil"
\* the retry loops run attempts 0, 1, 2
MaxAttempts == 3
\* the empty user id ""
EmptyID == 0
\* merged_at IS NULL
NullTime == 0

UserIDs == 1..NumUsers
PRIDs == 1..NumPRs
Procs == 1..NumProcs
TeamNames == {"backend", "payments"}
Usernames == {"name"}

VARIABLES
    teams,              \* teams(name)
    users,              \* users: user_id -> [username, is_active, team_name]
    pull_requests,      \* pull_requests: pr_id -> [author_id, status, created_at, merged_at]
    assigned_reviewers, \* assigned_reviewers: set of <<pr_id, user_id>>
    clock,              \* number of timestamps handed out so far
    tx,                 \* per process: the call in flight and its local variables
    last                \* what the call that returned last gave its caller

vars == <<teams, users, pull_requests, assigned_reviewers, clock, tx, last>>
db == <<teams, users, pull_requests, assigned_reviewers>>

\* ----------------------------------------------------------------- helpers
Perms(S) ==
    {s \in [1..Cardinality(S) -> S] : \A i, j \in 1..Cardinality(S) : i # j => s[i] # s[j]}

Range(s) == {s[i] : i \in 1..Len(s)}

\* ORDER BY user_id
SortedSeq(S) == CHOOSE s \in Perms(S) : \A i, j \in 1..Cardinality(S) : i < j => s[i] < s[j]

\* no cut to limit
TruncateNone(ids, limit) == ids

Truncate(ids, limit) == IF Len(ids) > limit THEN SubSeq(ids, 1, limit) ELSE ids

Now == clock + 1

Idle == [op |-> "idle"]
NoRet == [op |-> "none"]

\* ------------------------------------------------------------------ reads
\* SELECT user_id FROM assigned_reviewers WHERE pr_id=$1 ORDER BY user_id
ReviewersIn(asg, prID) == {a[2] : a \in {b \in asg : b[1] = prID}}
listReviewersTx(asg, prID) == SortedSeq(ReviewersIn(asg, prID))
listReviewers(prID) == listReviewersTx(assigned_reviewers, prID)

\* WHERE is_active=true AND user_id<>$2, without team_name=$1
EligibleIDsAnyTeam(us, teamName, exclude, block) ==
    {u \in DOMAIN us : us[u].is_active /\ u # exclude} \ block

\* WHERE team_name=$1 AND user_id<>$2, without is_active=true
EligibleIDsInactiveToo(us, teamName, exclude, block) ==
    {u \in DOMAIN us : us[u].team_name = teamName /\ u # exclude} \ block

\* WHERE team_name=$1 AND is_active=true, without user_id<>$2
EligibleIDsAnyUser(us, teamName, exclude, block) ==
    {u \in DOMAIN us : us[u].team_name = teamName /\ us[u].is_active} \ block

\* The rows pickCandidates reads, minus the block set, before the shuffle.
EligibleIDs(us, teamName, exclude, block) ==
    {u \in DOMAIN us : us[u].team_name = teamName /\ us[u].is_active /\ u # exclude} \ block

\* Every result the shuffle can produce, cut to limit.
pickCandidates(us, teamName, exclude, block, limit) ==
    {Truncate(ids, limit) : ids \in Perms(EligibleIDs(us, teamName, exclude, block))}

\* A blocklist without the author.
buildBlocklistReviewersOnly(old, currentReviewers, authorID) ==
    Range(currentReviewers) \cup {old}

\* the blocklist without the current reviewers: old and the author only
buildBlocklistOldAndAuthor(old, currentReviewers, authorID) == {old, authorID}

buildBlocklist(old, currentReviewers, authorID) ==
    Range(currentReviewers) \cup {old} \cup {authorID}

\* UPDATE users SET is_active=false, without WHERE team_name=$1
TeamMembersAll(us, teamName) == DOMAIN us

TeamMembers(us, teamName) == {u \in DOMAIN us : us[u].team_name = teamName}

\* buildTeam: the members ORDER BY user_id, or ErrTeamNotFound
buildTeam(us, ts, teamName) ==
    LET members == SortedSeq(TeamMembers(us, teamName))
    IN  IF Len(members) = 0 /\ teamName \notin ts
        THEN [err |-> ErrTeamNotFound, members |-> <<>>]
        ELSE [err |-> Nil, members |-> members]

\* ---------------------------------------------- conflicts between commits
\* What a committing transaction wrote: the user rows and pull request rows
\* it updated, the assignment rows it inserted or deleted, and whether it
\* ran at SERIALIZABLE.
Writes(userRows, prRows, asgRows, ser) ==
    [users |-> userRows, prs |-> prRows, asg |-> asgRows, serializable |-> ser]

\* loadPRMeta without FOR UPDATE: no row is locked.
loadPRMetaUnlocked(t) == {}

\* loadPRMeta reads the pull request row FOR UPDATE: a committed update of
\* the row after the snapshot fails the transaction.
loadPRMetaLocked(t) == {t.pr}

\* fetchTeamAssignments joins FOR UPDATE: the pull request rows it returned
\* are locked.
fetchTeamAssignmentsLocked(t) == {a[1] : a \in t.assignments}

\* Only the row lock of loadPRMeta fails a transaction, as at the default
\* isolation level.
ReassignConflictLockOnly(t, w) == loadPRMetaLocked(t) \cap w.prs # {}

ReassignConflict(t, w) ==
    \/ loadPRMetaLocked(t) \cap w.prs # {}
    \/ w.asg \cap {<<t.pr, t.old>>, <<t.pr, t.replacement>>} # {}
    \/ /\ w.serializable
       /\ \/ \E a \in w.asg : a[1] = t.pr
          \/ t.old \in w.users
          \/ \E u \in w.users : users[u].team_name = t.reviewerTeam

MassDeactivateConflict(t, w) ==
    \/ w.users \cap t.members # {}
    \/ fetchTeamAssignmentsLocked(t) \cap w.prs # {}
    \/ w.asg \cap {<<a[1], a[3]>> : a \in t.assignments} # {}
    \/ /\ w.serializable
       /\ \E a \in w.asg : a[1] \in {b[1] : b \in t.assignments} \/ a[2] \in t.members

\* The transactions in flight after process p committed the writes w:
\* a serializable transaction that conflicts with w can no longer commit.
AfterCommit(p, w) ==
    [q \in Procs |->
        IF q = p THEN Idle
        ELSE IF tx[q].op = "Reassign" /\ ReassignConflict(tx[q], w)
            THEN [tx[q] EXCEPT !.doomed = TRUE]
        ELSE IF tx[q].op = "MassDeactivate" /\ MassDeactivateConflict(tx[q], w)
            THEN [tx[q] EXCEPT !.doomed = TRUE]
        ELSE tx[q]]

Return(r) == last' = r

\* tx.Rollback() without the transaction
RollbackKeepsWrites(committed, written) == written

\* The deferred tx.Rollback(): a transaction that returns before Commit
\* leaves the committed rows as they were, whatever it had written.
Rollback(committed, written) == committed

\* a classifier that takes every error for a serialization failure
isSerializationErrorAny(err) == err # Nil

\* isSerializationError: the text holds "SQLSTATE 40001" or "could not
\* serialize access"
isSerializationError(err) ==
    err # Nil /\ err \in {ErrSerialization, ErrCouldNotSerialize}

\* isRetryable
isRetryable(err) ==
    IF err = Nil THEN FALSE
    ELSE IF err = ErrTxDone THEN TRUE
    ELSE isSerializationError(err)

Init ==
    /\ teams = {}
    /\ users = <<>>
    /\ pull_requests = <<>>
    /\ assigned_reviewers = {}
    /\ clock = 0
    /\ tx = [p \in Procs |-> Idle]
    /\ last = NoRet

\* ---------------------------------------------------------------- AddTeam
Member == [user_id : {EmptyID} \cup UserIDs, username : Usernames, is_active : BOOLEAN]
MemberLists == UNION {[1..n -> Member] : n \in 0..MaxMembers}

\* a map that keeps the first entry of every id
UniqueFirstWins(members) ==
    LET ids == {members[i].user_id : i \in 1..Len(members)} \ {EmptyID}
        firstOf(id) == CHOOSE i \in 1..Len(members) :
                        /\ members[i].user_id = id
                        /\ \A j \in 1..Len(members) : members[j].user_id = id => i <= j
    IN  [id \in ids |-> members[firstOf(id)]]

\* unique[m.UserID] = m for every member with a non-empty id, in order
Unique(members) ==
    LET ids == {members[i].user_id : i \in 1..Len(members)} \ {EmptyID}
        lastOf(id) == CHOOSE i \in 1..Len(members) :
                        /\ members[i].user_id = id
                        /\ \A j \in 1..Len(members) : members[j].user_id = id => j <= i
    IN  [id \in ids |-> members[lastOf(id)]]

\* Every unique map a payload of at most MaxMembers members gives.
UniqueMaps == {Unique(members) : members \in MemberLists}

Upsert(us, unique, teamName) ==
    [u \in DOMAIN us \cup DOMAIN unique |->
        IF u \in DOMAIN unique
        THEN [username |-> unique[u].username,
              is_active |-> unique[u].is_active,
              team_name |-> teamName]
        ELSE us[u]]

AddTeam(p) ==
    /\ tx[p].op = "idle"
    /\ \E teamName \in TeamNames :
        IF teamName \in teams
        THEN /\ Return([op |-> "AddTeam", team |-> teamName, err |-> ErrTeamExists])
             /\ UNCHANGED <<teams, users, pull_requests, assigned_reviewers, clock, tx>>
        ELSE \E unique \in UniqueMaps :
             /\ teams' = teams \cup {teamName}
             /\ users' = Upsert(users, unique, teamName)
             /\ tx' = AfterCommit(p, Writes(DOMAIN unique, {}, {}, FALSE))
             /\ Return([op |-> "AddTeam", team |-> teamName, err |-> Nil])
             /\ UNCHANGED <<pull_requests, assigned_reviewers, clock>>

\* ---------------------------------------------------------- SetUserActive
\* the UPDATE followed by a DELETE of the assignments of a deactivated user
SetUserActivePurging(p, userID, isActive) ==
    IF userID \notin DOMAIN users
    THEN /\ Return([op |-> "SetUserActive", user |-> userID, err |-> ErrUserNotFound])
         /\ UNCHANGED <<teams, users, pull_requests, assigned_reviewers, clock, tx>>
    ELSE /\ users' = [users EXCEPT ![userID].is_active = isActive]
         /\ assigned_reviewers' =
                IF isActive THEN assigned_reviewers
                ELSE {a \in assigned_reviewers : a[2] # userID}
         /\ tx' = AfterCommit(p, Writes({userID}, {}, {}, FALSE))
         /\ Return([op |-> "SetUserActive", user |-> userID, err |-> Nil,
                    row |-> users'[userID]])
         /\ UNCHANGED <<teams, pull_requests, clock>>

\* UPDATE users SET is_active = $2 WHERE user_id = $1 RETURNING ...
SetUserActiveWith(p, userID, isActive) ==
    IF userID \notin DOMAIN users
    THEN /\ Return([op |-> "SetUserActive", user |-> userID, err |-> ErrUserNotFound])
         /\ UNCHANGED <<teams, users, pull_requests, assigned_reviewers, clock, tx>>
    ELSE /\ users' = [users EXCEPT ![userID].is_active = isActive]
         /\ tx' = AfterCommit(p, Writes({userID}, {}, {}, FALSE))
         /\ Return([op |-> "SetUserActive", user |-> userID, err |-> Nil,
                    row |-> users'[userID]])
         /\ UNCHANGED <<teams, pull_requests, assigned_reviewers, clock>>

SetUserActive(p) ==
    /\ tx[p].op = "idle"
    /\ \E userID \in UserIDs, isActive \in BOOLEAN : SetUserActiveWith(p, userID, isActive)

\* ---------------------------------------------------------------- MergePR
\* merged_at = NOW()
MergedAtNow(row, now) == now

\* merged_at = COALESCE(NOW(), merged_at) with the arguments swapped at NULL
MergedAtKept(row, now) == IF row.merged_at = NullTime THEN row.merged_at ELSE now

\* merged_at = COALESCE(merged_at, NOW())
MergedAt(row, now) == IF row.merged_at = NullTime THEN now ELSE row.merged_at

MergePR(p) ==
    /\ tx[p].op = "idle"
    /\ \E id \in PRIDs :
        IF id \notin DOMAIN pull_requests
        THEN /\ Return([op |-> "MergePR", pr |-> id, err |-> ErrPRNotFound])
             /\ UNCHANGED <<teams, users, pull_requests, assigned_reviewers, clock, tx>>
        ELSE /\ clock < MaxClock
             /\ pull_requests' = [pull_requests EXCEPT ![id] =
                    [pull_requests[id] EXCEPT !.status = StatusMerged,
                                              !.merged_at = MergedAt(pull_requests[id], Now)]]
             /\ clock' = clock + 1
             /\ tx' = AfterCommit(p, Writes({}, {id}, {}, FALSE))
             /\ Return([op |-> "MergePR", pr |-> id, err |-> Nil,
                        status |-> pull_requests'[id].status,
                        merged_at |-> pull_requests'[id].merged_at,
                        reviewers |-> listReviewers(id)])
             /\ UNCHANGED <<teams, users, assigned_reviewers>>

\* --------------------------------------------------------------- CreatePR
\* createPROnce up to the team check: the id, the author, the author's team.
\* the author looked up before the id
createPROnceChecksAuthorFirst(prs, us, ts, id, author) ==
    IF author \notin DOMAIN us THEN ErrUserNotFound
    ELSE IF id \in DOMAIN prs THEN ErrPRExists
    ELSE IF us[author].team_name \notin ts THEN ErrTeamNotFound
    ELSE Nil

\* createPROnce up to pickCandidates: SELECT EXISTS on pull_requests, the
\* author's row, SELECT EXISTS on teams; the first check that fails returns
createPROnceChecks(prs, us, ts, id, author) ==
    IF id \in DOMAIN prs THEN ErrPRExists
    ELSE IF author \notin DOMAIN us THEN ErrUserNotFound
    ELSE IF us[author].team_name \notin ts THEN ErrTeamNotFound
    ELSE Nil

CreatePRCallWith(p, id, author) ==
    /\ tx[p].op = "idle"
    /\ LET err == createPROnceChecks(pull_requests, users, teams, id, author)
       IN  IF err # Nil
           THEN /\ Return([op |-> "CreatePR", pr |-> id, err |-> err])
                /\ UNCHANGED tx
           ELSE /\ tx' = [tx EXCEPT ![p] = [op |-> "CreatePR", pc |-> "pick", pr |-> id,
                                            author |-> author,
                                            teamName |-> users[author].team_name]]
                /\ UNCHANGED last
    /\ UNCHANGED <<teams, users, pull_requests, assigned_reviewers, clock>>

CreatePRCall(p) ==
    \E id \in PRIDs, author \in UserIDs : CreatePRCallWith(p, id, author)

\* pickCandidates(ctx, tx, teamName, payload.Author, nil, 2)
CreatePRPick(p) ==
    /\ tx[p].op = "CreatePR" /\ tx[p].pc = "pick"
    /\ \E candidates \in pickCandidates(users, tx[p].teamName, tx[p].author, {}, 2) :
        tx' = [tx EXCEPT ![p] = [op |-> "CreatePR", pc |-> "insert", pr |-> tx[p].pr,
                                 author |-> tx[p].author, teamName |-> tx[p].teamName,
                                 candidates |-> candidates]]
    /\ UNCHANGED <<teams, users, pull_requests, assigned_reviewers, clock, last>>

\* for _, c := range candidates { INSERT INTO assigned_reviewers ... }: the
\* first row only
insertAssignmentsFirst(prID, candidates) ==
    {<<prID, candidates[i]>> : i \in 1..(IF Len(candidates) > 1 THEN 1 ELSE Len(candidates))}

\* for _, c := range candidates { INSERT INTO assigned_reviewers ... }
insertAssignments(prID, candidates) ==
    {<<prID, candidates[i]>> : i \in 1..Len(candidates)}

\* the INSERT with StatusMerged in place of StatusOpen
insertPRMerged(prs, prID, author, now) ==
    [id \in DOMAIN prs \cup {prID} |->
        IF id = prID
        THEN [author_id |-> author, status |-> StatusMerged,
              created_at |-> now, merged_at |-> NullTime]
        ELSE prs[id]]

\* INSERT INTO pull_requests(pr_id, pr_name, author_id, status, created_at)
insertPR(prs, prID, author, now) ==
    [id \in DOMAIN prs \cup {prID} |->
        IF id = prID
        THEN [author_id |-> author, status |-> StatusOpen,
              created_at |-> now, merged_at |-> NullTime]
        ELSE prs[id]]

\* The two INSERTs and the commit.  A pull request row with the same key that
\* was committed meanwhile makes the first INSERT fail with a unique violation.
\* A request cancelled after the first INSERT or after any of the assignment
\* INSERTs returns the error and the transaction is rolled back.
CreatePRInsert(p) ==
    /\ tx[p].op = "CreatePR" /\ tx[p].pc = "insert"
    /\ LET t == tx[p]
           inserted == insertAssignments(t.pr, t.candidates)
       IN  IF t.pr \in DOMAIN pull_requests
           THEN /\ tx' = [tx EXCEPT ![p] = Idle]
                /\ Return([op |-> "CreatePR", pr |-> t.pr, err |-> ErrDuplicateKey])
                /\ UNCHANGED <<pull_requests, assigned_reviewers>>
           ELSE \/ /\ pull_requests' = insertPR(pull_requests, t.pr, t.author, Now)
                   /\ assigned_reviewers' = assigned_reviewers \cup inserted
                   /\ tx' = AfterCommit(p, Writes({}, {}, inserted, FALSE))
                   /\ Return([op |-> "CreatePR", pr |-> t.pr, err |-> Nil,
                              reviewers |-> t.candidates])
                \/ \E done \in 0..Len(t.candidates) :
                   /\ pull_requests' =
                         Rollback(pull_requests, insertPR(pull_requests, t.pr, t.author, Now))
                   /\ assigned_reviewers' =
                         Rollback(assigned_reviewers,
                                  assigned_reviewers
                                      \cup insertAssignments(t.pr, SubSeq(t.candidates, 1, done)))
                   /\ tx' = [tx EXCEPT ![p] = Idle]
                   /\ Return([op |-> "CreatePR", pr |-> t.pr, err |-> ErrCanceled])
    /\ UNCHANGED <<teams, users, clock>>

\* --------------------------------------------------------------- Reassign
loadPRMeta(prID) ==
    IF prID \notin DOMAIN pull_requests THEN [err |-> ErrPRNotFound]
    ELSE IF pull_requests[prID].status = StatusMerged THEN [err |-> ErrPRMerged]
    ELSE [err |-> Nil, authorID |-> pull_requests[prID].author_id,
          currentReviewers |-> listReviewers(prID)]

lookupReviewerTeam(userID) ==
    IF userID \notin DOMAIN users THEN [err |-> ErrUserNotFound]
    ELSE [err |-> Nil, reviewerTeam |-> users[userID].team_name]

ensureReviewerAssigned(prID, old) ==
    IF <<prID, old>> \in assigned_reviewers THEN Nil ELSE ErrNotAssigned

\* reassignOnce with ensureReviewerAssigned called before lookupReviewerTeam
reassignOnceReadAssignedFirst(prID, old) ==
    LET prMeta == loadPRMeta(prID) IN
    IF prMeta.err # Nil THEN {[err |-> prMeta.err]} ELSE
    IF ensureReviewerAssigned(prID, old) # Nil THEN {[err |-> ErrNotAssigned]} ELSE
    LET team == lookupReviewerTeam(old) IN
    IF team.err # Nil THEN {[err |-> team.err]} ELSE
    LET block == buildBlocklist(old, prMeta.currentReviewers, prMeta.authorID) IN
    {IF Len(candidates) = 0
     THEN [err |-> ErrNoCandidate]
     ELSE [err |-> Nil, authorID |-> prMeta.authorID,
           currentReviewers |-> prMeta.currentReviewers,
           reviewerTeam |-> team.reviewerTeam, replacement |-> candidates[1]]
     : candidates \in pickCandidates(users, team.reviewerTeam, EmptyID, block, 1)}

\* The reads of reassignOnce, all on one snapshot: the error it returns, or
\* the local variables it reaches replaceReviewer with.
reassignOnceRead(prID, old) ==
    LET prMeta == loadPRMeta(prID) IN
    IF prMeta.err # Nil THEN {[err |-> prMeta.err]} ELSE
    LET team == lookupReviewerTeam(old) IN
    IF team.err # Nil THEN {[err |-> team.err]} ELSE
    IF ensureReviewerAssigned(prID, old) # Nil THEN {[err |-> ErrNotAssigned]} ELSE
    LET block == buildBlocklist(old, prMeta.currentReviewers, prMeta.authorID) IN
    {IF Len(candidates) = 0
     THEN [err |-> ErrNoCandidate]
     ELSE [err |-> Nil, authorID |-> prMeta.authorID,
           currentReviewers |-> prMeta.currentReviewers,
           reviewerTeam |-> team.reviewerTeam, replacement |-> candidates[1]]
     : candidates \in pickCandidates(users, team.reviewerTeam, EmptyID, block, 1)}

\* DELETE FROM assigned_reviewers WHERE user_id=$2, on every pull request
replaceReviewerAnyPR(asg, prID, oldID, newID) ==
    {a \in asg : a[2] # oldID} \cup {<<prID, newID>>}

replaceReviewer(asg, prID, oldID, newID) == (asg \ {<<prID, oldID>>}) \cup {<<prID, newID>>}

\* One attempt of the retry loop, up to the point where it writes.
ReassignAttempt(p, prID, old, attempts) ==
    \E r \in reassignOnceRead(prID, old) :
        IF r.err # Nil
        THEN /\ tx' = [tx EXCEPT ![p] = Idle]
             /\ Return([op |-> "Reassign", pr |-> prID, old |-> old, err |-> r.err,
                        attempts |-> attempts])
        ELSE /\ tx' = [tx EXCEPT ![p] =
                    [op |-> "Reassign", pr |-> prID, old |-> old, attempts |-> attempts,
                     authorID |-> r.authorID, currentReviewers |-> r.currentReviewers,
                     reviewerTeam |-> r.reviewerTeam, replacement |-> r.replacement,
                     doomed |-> FALSE]]
             /\ UNCHANGED last

ReassignCall(p) ==
    /\ tx[p].op = "idle"
    /\ \E prID \in PRIDs, old \in UserIDs : ReassignAttempt(p, prID, old, 0)
    /\ UNCHANGED <<teams, users, pull_requests, assigned_reviewers, clock>>

\* replaceReviewer: the DELETE of the old reviewer's row
deleteReviewer(asg, prID, oldID) == asg \ {<<prID, oldID>>}

\* replaceReviewer, fetchPRTx and the commit; or the serialization failure,
\* which the loop of Reassign retries while attempts < 2; or the INSERT of
\* replaceReviewer fails after its DELETE and the transaction is rolled back.
ReassignCommit(p) ==
    /\ tx[p].op = "Reassign"
    /\ LET t == tx[p] IN
       IF t.doomed
       THEN /\ IF isSerializationError(ErrSerialization) /\ t.attempts < MaxAttempts - 1
               THEN ReassignAttempt(p, t.pr, t.old, t.attempts + 1)
               ELSE /\ tx' = [tx EXCEPT ![p] = Idle]
                    /\ Return([op |-> "Reassign", pr |-> t.pr, old |-> t.old,
                               err |-> ErrSerialization, attempts |-> t.attempts])
            /\ UNCHANGED assigned_reviewers
       ELSE \/ IF <<t.pr, t.replacement>> \in assigned_reviewers \ {<<t.pr, t.old>>}
               THEN /\ tx' = [tx EXCEPT ![p] = Idle]
                    /\ Return([op |-> "Reassign", pr |-> t.pr, old |-> t.old,
                               err |-> ErrDuplicateKey, attempts |-> t.attempts])
                    /\ UNCHANGED assigned_reviewers
               ELSE /\ assigned_reviewers' =
                          replaceReviewer(assigned_reviewers, t.pr, t.old, t.replacement)
                    /\ tx' = AfterCommit(p, Writes({}, {},
                                {<<t.pr, t.old>>, <<t.pr, t.replacement>>}, TRUE))
                    /\ Return([op |-> "Reassign", pr |-> t.pr, old |-> t.old, err |-> Nil,
                               attempts |-> t.attempts, replacement |-> t.replacement,
                               reviewers |-> listReviewersTx(assigned_reviewers', t.pr)])
            \/ /\ assigned_reviewers' =
                      Rollback(assigned_reviewers,
                               deleteReviewer(assigned_reviewers, t.pr, t.old))
               /\ tx' = [tx EXCEPT ![p] = Idle]
               /\ Return([op |-> "Reassign", pr |-> t.pr, old |-> t.old,
                          err |-> ErrStorageFault, attempts |-> t.attempts])
    /\ UNCHANGED <<teams, users, pull_requests, clock>>

\* --------------------------------------------------------- MassDeactivate
ensureTeamExistsTx(teamName) == IF teamName \in teams THEN Nil ELSE ErrTeamNotFound

\* the UPDATE of step 2 left out
deactivateUsersTxNone(us, teamName) == us

\* UPDATE users SET is_active=false WHERE team_name=$1
deactivateUsersTx(us, teamName) ==
    [u \in DOMAIN us |->
        IF us[u].team_name = teamName THEN [us[u] EXCEPT !.is_active = FALSE] ELSE us[u]]

\* fetchTeamAssignments without pr.status = 'OPEN'
fetchTeamAssignmentsAnyStatus(us, asg, teamName) ==
    {<<a[1], pull_requests[a[1]].author_id, a[2]>> :
        a \in {b \in asg : us[b[2]].team_name = teamName}}

\* <<pr_id, author_id, user_id>> of the open pull requests reviewed by the team
fetchTeamAssignments(us, asg, teamName) ==
    {<<a[1], pull_requests[a[1]].author_id, a[2]>> :
        a \in {b \in asg : /\ pull_requests[b[1]].status = StatusOpen
                           /\ us[b[2]].team_name = teamName}}

\* The loop without the DELETE of the branch len(candidates) == 0.
RECURSIVE reassignAfterDeactivationKeepsOld(_, _, _, _)
reassignAfterDeactivationKeepsOld(us, asg, teamName, list) ==
    IF list = <<>> THEN {asg} ELSE
    LET a == Head(list)
        currentReviewers == listReviewersTx(asg, a[1])
        block == Range(currentReviewers) \cup {a[2]}
        removed == asg \ {<<a[1], a[3]>>}
    IN  UNION {reassignAfterDeactivationKeepsOld(
                   us,
                   IF Len(candidates) = 0 THEN asg
                   ELSE removed \cup {<<a[1], candidates[1]>>},
                   teamName, Tail(list))
               : candidates \in pickCandidates(us, teamName, EmptyID, block, 1)}

\* Every assignment set the loop can end with, for the rows in the order of list.
RECURSIVE reassignAfterDeactivation(_, _, _, _)
reassignAfterDeactivation(us, asg, teamName, list) ==
    IF list = <<>> THEN {asg} ELSE
    LET a == Head(list)
        currentReviewers == listReviewersTx(asg, a[1])
        block == Range(currentReviewers) \cup {a[2]}
        removed == asg \ {<<a[1], a[3]>>}
    IN  UNION {reassignAfterDeactivation(
                   us,
                   IF Len(candidates) = 0 THEN removed
                   ELSE removed \cup {<<a[1], candidates[1]>>},
                   teamName, Tail(list))
               : candidates \in pickCandidates(us, teamName, EmptyID, block, 1)}

\* The statements of massDeactivateOnce on one snapshot and its own writes.
massDeactivateOnceRead(teamName) ==
    IF ensureTeamExistsTx(teamName) # Nil THEN {[err |-> ErrTeamNotFound]} ELSE
    LET us == deactivateUsersTx(users, teamName)
        assignments == fetchTeamAssignments(us, assigned_reviewers, teamName)
        outcomes == UNION {reassignAfterDeactivation(us, assigned_reviewers, teamName, list)
                           : list \in Perms(assignments)}
    IN  {[err |-> Nil, members |-> TeamMembers(users, teamName),
          assignments |-> assignments,
          deleted |-> assigned_reviewers \ out,
          inserted |-> out \ assigned_reviewers] : out \in outcomes}

MassDeactivateAttempt(p, teamName, attempts) ==
    \E r \in massDeactivateOnceRead(teamName) :
        IF r.err # Nil
        THEN /\ tx' = [tx EXCEPT ![p] = Idle]
             /\ Return([op |-> "MassDeactivate", team |-> teamName, err |-> r.err,
                        attempts |-> attempts])
        ELSE /\ tx' = [tx EXCEPT ![p] =
                    [op |-> "MassDeactivate", team |-> teamName, attempts |-> attempts,
                     members |-> r.members, assignments |-> r.assignments,
                     deleted |-> r.deleted, inserted |-> r.inserted, doomed |-> FALSE]]
             /\ UNCHANGED last

MassDeactivateCall(p) ==
    /\ tx[p].op = "idle"
    /\ \E teamName \in TeamNames : MassDeactivateAttempt(p, teamName, 0)
    /\ UNCHANGED <<teams, users, pull_requests, assigned_reviewers, clock>>

\* The rows massDeactivateOnce has written when it reaches Commit.
massDeactivateWritten(t) ==
    [users |-> [u \in DOMAIN users |->
                   IF u \in t.members THEN [users[u] EXCEPT !.is_active = FALSE]
                   ELSE users[u]],
     assigned_reviewers |-> (assigned_reviewers \ t.deleted) \cup t.inserted]

\* The commit; or the serialization failure, which the loop of MassDeactivate
\* retries while attempts < 2; or the request is cancelled before the commit.
\* A transaction that did not commit is rolled back.
MassDeactivateCommit(p) ==
    /\ tx[p].op = "MassDeactivate"
    /\ LET t == tx[p]
           written == massDeactivateWritten(t)
       IN
       IF t.doomed
       THEN /\ IF isSerializationError(ErrSerialization) /\ t.attempts < MaxAttempts - 1
               THEN MassDeactivateAttempt(p, t.team, t.attempts + 1)
               ELSE /\ tx' = [tx EXCEPT ![p] = Idle]
                    /\ Return([op |-> "MassDeactivate", team |-> t.team,
                               err |-> ErrSerialization, attempts |-> t.attempts])
            /\ users' = Rollback(users, written.users)
            /\ assigned_reviewers' = Rollback(assigned_reviewers, written.assigned_reviewers)
       ELSE \/ /\ users' = written.users
               /\ assigned_reviewers' = written.assigned_reviewers
               /\ tx' = AfterCommit(p, Writes(t.members, {}, t.deleted \cup t.inserted, TRUE))
               /\ Return([op |-> "MassDeactivate", team |-> t.team, err |-> Nil,
                          attempts |-> t.attempts])
            \/ /\ users' = Rollback(users, written.users)
               /\ assigned_reviewers' = Rollback(assigned_reviewers, written.assigned_reviewers)
               /\ tx' = [tx EXCEPT ![p] = Idle]
               /\ Return([op |-> "MassDeactivate", team |-> t.team, err |-> ErrCanceled,
                          attempts |-> t.attempts])
    /\ UNCHANGED <<teams, pull_requests, clock>>

\* ---------------------------------------------------------- specifications
Step(p) ==
    \/ AddTeam(p)
    \/ SetUserActive(p)
    \/ CreatePRCall(p)
    \/ CreatePRPick(p)
    \/ CreatePRInsert(p)
    \/ MergePR(p)
    \/ ReassignCall(p)
    \/ ReassignCommit(p)
    \/ MassDeactivateCall(p)
    \/ MassDeactivateCommit(p)

\* One client, one call at a time, from the empty database.
FirstProc == {p \in Procs : \A q \in Procs : p <= q}

Next == \E p \in FirstProc : Step(p)

Spec == Init /\ [][Next]_vars

\* Calls of different processes overlap.  The database starts with both teams
\* registered and every user an active member of backend.
InitConc ==
    /\ teams = TeamNames
    /\ users = [u \in UserIDs |->
                   [username |-> "name", is_active |-> TRUE, team_name |-> "backend"]]
    /\ pull_requests = <<>>
    /\ assigned_reviewers = {}
    /\ clock = 0
    /\ tx = [p \in Procs |-> Idle]
    /\ last = NoRet

NextConc == \E p \in Procs : Step(p)

SpecConc == InitConc /\ [][NextConc]_vars

\* Overlapping calls on an open pull request whose team has a member to spare.
\* The author and one more user are members of backend beside UserIDs; the
\* pull request was created with one or two reviewers, and a second open pull
\* request of the same author is reviewed by users 1 and 2.
ExtraUser == NumUsers + 1
SpareUser == NumUsers + 2
ExtraPR == NumPRs + 1

InitReassign ==
    /\ teams = TeamNames
    /\ users = [u \in UserIDs \cup {ExtraUser, SpareUser} |->
                   [username |-> "name", is_active |-> TRUE, team_name |-> "backend"]]
    /\ pull_requests = [id \in {1, ExtraPR} |->
                           [author_id |-> ExtraUser, status |-> StatusOpen,
                            created_at |-> 1, merged_at |-> NullTime]]
    /\ \E first \in {{1}, {1, 2}} :
           assigned_reviewers = {<<1, u>> : u \in first} \cup {<<ExtraPR, 1>>, <<ExtraPR, 2>>}
    /\ clock = 0
    /\ tx = [p \in Procs |-> Idle]
    /\ last = NoRet

NextReassign ==
    \E p \in Procs :
        \/ SetUserActive(p)
        \/ MergePR(p)
        \/ ReassignCall(p)
        \/ ReassignCommit(p)

SpecReassign == InitReassign /\ [][NextReassign]_vars

\* pickCandidates applied to drawn arguments, and CreatePR by one client, on
\* every users table of four users spread over the two teams.
PickLimits == 0..2

PickArgs ==
    [op : {"pickCandidates"}, teamName : TeamNames, exclude : {EmptyID} \cup UserIDs,
     block : SUBSET UserIDs, limit : PickLimits]

InitPick ==
    /\ teams = TeamNames
    /\ users \in [UserIDs \cup {ExtraUser} ->
                     [username : Usernames, is_active : BOOLEAN, team_name : TeamNames]]
    /\ pull_requests = <<>>
    /\ assigned_reviewers = {}
    /\ clock = 0
    /\ \E first \in {Idle} \cup PickArgs :
           tx = [p \in Procs |-> IF p \in FirstProc THEN first ELSE Idle]
    /\ last = NoRet

PickCandidatesCall(p) ==
    /\ tx[p].op = "pickCandidates"
    /\ \E ids \in pickCandidates(users, tx[p].teamName, tx[p].exclude, tx[p].block,
                                 tx[p].limit) :
           Return([op |-> "pickCandidates", teamName |-> tx[p].teamName,
                   exclude |-> tx[p].exclude, block |-> tx[p].block,
                   limit |-> tx[p].limit, ids |-> ids, err |-> Nil])
    /\ tx' = [tx EXCEPT ![p] = [op |-> "returned"]]
    /\ UNCHANGED <<teams, users, pull_requests, assigned_reviewers, clock>>

NextPick ==
    \E p \in FirstProc :
        \/ PickCandidatesCall(p)
        \/ CreatePRCall(p)
        \/ CreatePRPick(p)
        \/ CreatePRInsert(p)

SpecPick == InitPick /\ [][NextPick]_vars

\* ------------------------------------------- AddTeam, statement by statement
\* teams without its primary key: an INSERT never waits for another one
InsertingTeamNever(p, teamName) == FALSE

\* Another transaction has inserted the name into teams and not finished:
\* the unique index makes INSERT INTO teams wait for it.
InsertingTeam(p, teamName) ==
    \E q \in Procs \ {p} : tx[q].op = "AddTeam" /\ tx[q].team = teamName

\* BeginTx and INSERT INTO teams(name)
AddTeamInsert(p) ==
    /\ tx[p].op = "idle"
    /\ \E teamName \in TeamNames :
        IF teamName \in teams
        THEN /\ Return([op |-> "AddTeam", team |-> teamName, err |-> ErrTeamExists])
             /\ UNCHANGED tx
        ELSE /\ ~InsertingTeam(p, teamName)
             /\ tx' = [tx EXCEPT ![p] = [op |-> "AddTeam", team |-> teamName]]
             /\ UNCHANGED last
    /\ UNCHANGED <<teams, users, pull_requests, assigned_reviewers, clock>>

\* The upserts of the payload's members, buildTeam and Commit; or the request
\* is cancelled on the way and the deferred Rollback undoes the inserts.
AddTeamCommit(p) ==
    /\ tx[p].op = "AddTeam"
    /\ \E unique \in UniqueMaps :
        LET teamName == tx[p].team
            written == [teams |-> teams \cup {teamName},
                        users |-> Upsert(users, unique, teamName)]
        IN  \/ /\ teams' = written.teams
               /\ users' = written.users
               /\ tx' = AfterCommit(p, Writes(DOMAIN unique, {}, {}, FALSE))
               /\ Return([op |-> "AddTeam", team |-> teamName, err |-> Nil])
            \/ /\ teams' = Rollback(teams, written.teams)
               /\ users' = Rollback(users, written.users)
               /\ tx' = [tx EXCEPT ![p] = Idle]
               /\ Return([op |-> "AddTeam", team |-> teamName, err |-> ErrCanceled])
    /\ UNCHANGED <<pull_requests, assigned_reviewers, clock>>

NextTeam == \E p \in Procs : AddTeamInsert(p) \/ AddTeamCommit(p) \/ SetUserActive(p)

SpecTeam == Init /\ [][NextTeam]_vars

\* ------------------------------------------------------------ retry loops
\* The loops of AddTeam, CreatePR, Reassign and MassDeactivate around their
\* transactional bodies, with the store seen as database/sql presents it:
\* every statement may return an error, and a cancelled request context makes
\* the pool roll the transaction back on its own.
Wrapped == {"AddTeam", "CreatePR", "Reassign", "MassDeactivate"}

\* the sentinel errors each body returns
BusinessErrors(name) ==
    CASE name = "AddTeam" -> {ErrTeamExists}
      [] name = "CreatePR" -> {ErrPRExists, ErrUserNotFound, ErrTeamNotFound}
      [] name = "Reassign" -> {ErrPRNotFound, ErrPRMerged, ErrUserNotFound,
                               ErrNotAssigned, ErrNoCandidate}
      [] name = "MassDeactivate" -> {ErrTeamNotFound}

\* the errors a statement or the commit may pass up from the store
StoreErrors == {ErrSerialization, ErrCouldNotSerialize, ErrDuplicateKey, ErrStorageFault}

\* attempts < 3 at the head of a loop that never stops retrying
attemptsRemainAlways(attempts) == TRUE

\* attempts < 2
attemptsRemain(attempts) == attempts < MaxAttempts - 1

\* the test before `continue`: AddTeam asks isRetryable, the other three
\* isSerializationError
retries(name, err, attempts) ==
    IF name = "AddTeam"
    THEN isRetryable(err) /\ attemptsRemain(attempts)
    ELSE isSerializationError(err) /\ attemptsRemain(attempts)

\* a body without the deferred tx.Rollback()
DeferredRollbackMissing(open) == open

\* defer tx.Rollback(): when the body returns the transaction is closed
DeferredRollback(open) == FALSE

\* mapErrorWithLog
mapErrorWithLog(err) ==
    IF err \in {ErrCanceled, ErrDeadlineExceeded} THEN "CLIENT_CLOSED"
    ELSE IF err = ErrTeamExists THEN "TEAM_EXISTS"
    ELSE IF err = ErrPRExists THEN "PR_EXISTS"
    ELSE IF err = ErrPRMerged THEN "PR_MERGED"
    ELSE IF err = ErrNotAssigned THEN "NOT_ASSIGNED"
    ELSE IF err = ErrNoCandidate THEN "NO_CANDIDATE"
    ELSE IF err \in {ErrUserNotFound, ErrPRNotFound, ErrTeamNotFound} THEN "NOT_FOUND"
    ELSE "INTERNAL"

\* mapErrorWithLog: the HTTPStatus of the apiError
mapErrorStatus(err) ==
    IF err \in {ErrCanceled, ErrDeadlineExceeded} THEN 499
    ELSE IF err = ErrTeamExists THEN 400
    ELSE IF err \in {ErrPRExists, ErrPRMerged, ErrNotAssigned, ErrNoCandidate} THEN 409
    ELSE IF err \in {ErrUserNotFound, ErrPRNotFound, ErrTeamNotFound} THEN 404
    ELSE 500

\* for attempts := 0
WrappedCall(p) ==
    /\ tx[p].op = "idle"
    /\ \E name \in Wrapped :
           tx' = [tx EXCEPT ![p] =
                     [op |-> "loop", name |-> name, attempts |-> 0, pc |-> "begin",
                      open |-> FALSE, err |-> Nil, ctxErr |-> Nil]]
    /\ UNCHANGED <<teams, users, pull_requests, assigned_reviewers, clock, last>>

\* the caller cancels the request, or its deadline passes
ContextDone(p) ==
    /\ tx[p].op = "loop" /\ tx[p].ctxErr = Nil
    /\ \E e \in {ErrCanceled, ErrDeadlineExceeded} : tx' = [tx EXCEPT ![p].ctxErr = e]
    /\ UNCHANGED <<teams, users, pull_requests, assigned_reviewers, clock, last>>

\* database/sql rolls back a transaction whose context is done
AwaitDone(p) ==
    /\ tx[p].op = "loop" /\ tx[p].ctxErr # Nil /\ tx[p].open
    /\ tx' = [tx EXCEPT ![p].open = FALSE]
    /\ UNCHANGED <<teams, users, pull_requests, assigned_reviewers, clock, last>>

\* s.db.BeginTx(ctx, ...), and `return err` when it fails
BeginTx(p) ==
    /\ tx[p].op = "loop" /\ tx[p].pc = "begin"
    /\ IF tx[p].ctxErr # Nil
       THEN tx' = [tx EXCEPT ![p].pc = "ended", ![p].err = tx[p].ctxErr]
       ELSE \/ tx' = [tx EXCEPT ![p].pc = "body", ![p].open = TRUE]
            \/ tx' = [tx EXCEPT ![p].pc = "ended", ![p].err = ErrStorageFault]
    /\ UNCHANGED <<teams, users, pull_requests, assigned_reviewers, clock, last>>

\* The statements of the body up to its return.  With a live context the
\* body commits, or returns a sentinel error or an error of the store.  With
\* a context that is done a statement returns ctx.Err(), and so does Commit
\* unless the pool has already rolled the transaction back, when it returns
\* sql.ErrTxDone.  The deferred Rollback runs on every return.
OnceBody(p) ==
    /\ tx[p].op = "loop" /\ tx[p].pc = "body"
    /\ \E e \in IF tx[p].ctxErr = Nil
                THEN {Nil} \cup BusinessErrors(tx[p].name) \cup StoreErrors
                ELSE {tx[p].ctxErr} \cup (IF tx[p].open THEN {} ELSE {ErrTxDone}) :
           tx' = [tx EXCEPT ![p].pc = "ended", ![p].err = e,
                            ![p].open = IF e = Nil THEN FALSE
                                        ELSE DeferredRollback(tx[p].open)]
    /\ UNCHANGED <<teams, users, pull_requests, assigned_reviewers, clock, last>>

\* the rest of the loop body: return, or sleep and continue
LoopStep(p) ==
    /\ tx[p].op = "loop" /\ tx[p].pc = "ended"
    /\ LET t == tx[p] IN
       IF t.err # Nil /\ retries(t.name, t.err, t.attempts)
       THEN /\ tx' = [tx EXCEPT ![p].attempts = t.attempts + 1, ![p].pc = "begin",
                                ![p].err = Nil]
            /\ UNCHANGED last
       ELSE /\ tx' = [tx EXCEPT ![p] = Idle]
            /\ Return([op |-> t.name, err |-> t.err, attempts |-> t.attempts,
                       ctxErr |-> t.ctxErr])
    /\ UNCHANGED <<teams, users, pull_requests, assigned_reviewers, clock>>

RunsLoop(p) == BeginTx(p) \/ OnceBody(p) \/ LoopStep(p)

NextRetry ==
    \E p \in FirstProc :
        \/ WrappedCall(p)
        \/ ContextDone(p)
        \/ AwaitDone(p)
        \/ BeginTx(p)
        \/ OnceBody(p)
        \/ LoopStep(p)

SpecRetry == Init /\ [][NextRetry]_vars

\* the goroutine of a request keeps running until the call returns
SpecRetryFair == SpecRetry /\ WF_vars(\E p \in FirstProc : RunsLoop(p))

\* ---------------------------------------------------------------- queries
\* GetTeam is buildTeam on the pool: the members query is one statement, the
\* lookup in teams, made when no member was found, a second one.
GetTeamCall(p) ==
    /\ tx[p].op = "idle"
    /\ \E teamName \in TeamNames :
           LET members == SortedSeq(TeamMembers(users, teamName))
           IN  IF Len(members) = 0
               THEN /\ tx' = [tx EXCEPT ![p] = [op |-> "GetTeam", team |-> teamName]]
                    /\ UNCHANGED last
               ELSE /\ Return([op |-> "GetTeam", team |-> teamName,
                               err |-> Nil, members |-> members])
                    /\ UNCHANGED tx
    /\ UNCHANGED <<db, clock>>

GetTeamExists(p) ==
    /\ tx[p].op = "GetTeam"
    /\ Return([op |-> "GetTeam", team |-> tx[p].team,
               err |-> buildTeam([u \in {} |-> Nil], teams, tx[p].team).err,
               members |-> <<>>])
    /\ tx' = [tx EXCEPT ![p] = Idle]
    /\ UNCHANGED <<db, clock>>

\* ORDER BY pr.pr_id left out of the join
joinReviewsUnordered(prs, asg, userID) ==
    LET ids == {a[1] : a \in {b \in asg : b[2] = userID /\ b[1] \in DOMAIN prs}}
        s   == CHOOSE q \in Perms(ids) : \A i, j \in 1..Cardinality(ids) : i < j => q[i] > q[j]
    IN  [i \in 1..Len(s) |-> [pr_id |-> s[i], status |-> prs[s[i]].status]]

\* pull_requests JOIN assigned_reviewers WHERE ar.user_id=$1 ORDER BY pr.pr_id
joinReviews(prs, asg, userID) ==
    LET ids == {a[1] : a \in {b \in asg : b[2] = userID /\ b[1] \in DOMAIN prs}}
        s   == SortedSeq(ids)
    IN  [i \in 1..Len(s) |-> [pr_id |-> s[i], status |-> prs[s[i]].status]]

\* UserReviews: SELECT EXISTS on users, then the join, each on the pool.
UserReviewsCall(p) ==
    /\ tx[p].op = "idle"
    /\ \E userID \in UserIDs \cup {EmptyID} :
           IF userID \notin DOMAIN users
           THEN /\ Return([op |-> "UserReviews", user |-> userID,
                           err |-> ErrUserNotFound, prs |-> <<>>])
                /\ UNCHANGED tx
           ELSE /\ tx' = [tx EXCEPT ![p] = [op |-> "UserReviews", user |-> userID]]
                /\ UNCHANGED last
    /\ UNCHANGED <<db, clock>>

UserReviewsQuery(p) ==
    /\ tx[p].op = "UserReviews"
    /\ Return([op |-> "UserReviews", user |-> tx[p].user, err |-> Nil,
               prs |-> joinReviews(pull_requests, assigned_reviewers, tx[p].user)])
    /\ tx' = [tx EXCEPT ![p] = Idle]
    /\ UNCHANGED <<db, clock>>

\* users JOIN assigned_reviewers in place of the LEFT JOIN
countAssignmentsInner(us, asg) ==
    LET assigned == {u \in DOMAIN us : \E a \in asg : a[2] = u}
    IN  [u \in assigned |-> Cardinality({a \in asg : a[2] = u})]

\* SELECT u.user_id, COUNT(ar.pr_id) FROM users u LEFT JOIN assigned_reviewers
\* ar ON ar.user_id = u.user_id GROUP BY u.user_id
countAssignments(us, asg) ==
    [u \in DOMAIN us |-> Cardinality({a \in asg : a[2] = u})]

\* SELECT COUNT(*) FROM pull_requests WHERE status=$1
countPRs(prs, status) ==
    Cardinality({id \in DOMAIN prs : prs[id].status = status})

\* Stats: three statements on the pool, no transaction around them.
StatsCall(p) ==
    /\ tx[p].op = "idle"
    /\ tx' = [tx EXCEPT ![p] = [op |-> "Stats", pc |-> "open",
                                AssignmentsPerUser |-> countAssignments(users, assigned_reviewers),
                                OpenPRs |-> 0]]
    /\ UNCHANGED <<db, clock, last>>

StatsOpen(p) ==
    /\ tx[p].op = "Stats"
    /\ tx[p].pc = "open"
    /\ tx' = [tx EXCEPT ![p].pc = "merged",
                        ![p].OpenPRs = countPRs(pull_requests, StatusOpen)]
    /\ UNCHANGED <<db, clock, last>>

StatsMerged(p) ==
    /\ tx[p].op = "Stats"
    /\ tx[p].pc = "merged"
    /\ Return([op |-> "Stats", err |-> Nil,
               AssignmentsPerUser |-> tx[p].AssignmentsPerUser,
               OpenPRs |-> tx[p].OpenPRs,
               MergedPRs |-> countPRs(pull_requests, StatusMerged)])
    /\ tx' = [tx EXCEPT ![p] = Idle]
    /\ UNCHANGED <<db, clock>>

Query(p) ==
    \/ GetTeamCall(p)
    \/ GetTeamExists(p)
    \/ UserReviewsCall(p)
    \/ UserReviewsQuery(p)
    \/ StatsCall(p)
    \/ StatsOpen(p)
    \/ StatsMerged(p)

\* One client that writes and reads, one call at a time, from the empty
\* database.
NextRead == \E p \in FirstProc : Step(p) \/ Query(p)

SpecRead == Init /\ [][NextRead]_vars

\* One client reads while another writes.  The database starts with both
\* teams registered, five active users in backend and one OPEN pull request
\* with two reviewers; the writer creates, merges and reassigns the other.
InitQuery ==
    /\ teams = TeamNames
    /\ users = [u \in UserIDs \cup {ExtraUser, SpareUser} |->
                   [username |-> "name", is_active |-> TRUE, team_name |-> "backend"]]
    /\ pull_requests = [id \in {ExtraPR} |->
                           [author_id |-> ExtraUser, status |-> StatusOpen,
                            created_at |-> 1, merged_at |-> NullTime]]
    /\ assigned_reviewers = {<<ExtraPR, 1>>, <<ExtraPR, 2>>}
    /\ clock = 0
    /\ tx = [p \in Procs |-> Idle]
    /\ last = NoRet

NextQuery ==
    \/ \E p \in FirstProc :
           \/ UserReviewsCall(p)
           \/ UserReviewsQuery(p)
           \/ StatsCall(p)
           \/ StatsOpen(p)
           \/ StatsMerged(p)
    \/ \E p \in Procs \ FirstProc :
           \/ CreatePRCall(p)
           \/ CreatePRPick(p)
           \/ CreatePRInsert(p)
           \/ MergePR(p)
           \/ ReassignCall(p)
           \/ ReassignCommit(p)

SpecQuery == InitQuery /\ [][NextQuery]_vars

\* Calls of different processes overlap on a team with more candidates than
\* a pull request takes: both teams registered, four active users in backend.
InitCap ==
    /\ teams = TeamNames
    /\ users = [u \in UserIDs \cup {ExtraUser} |->
                   [username |-> "name", is_active |-> TRUE, team_name |-> "backend"]]
    /\ pull_requests = <<>>
    /\ assigned_reviewers = {}
    /\ clock = 0
    /\ tx = [p \in Procs |-> Idle]
    /\ last = NoRet

NextCap ==
    \E p \in Procs :
        \/ CreatePRCall(p)
        \/ CreatePRPick(p)
        \/ CreatePRInsert(p)
        \/ MergePR(p)
        \/ ReassignCall(p)
        \/ ReassignCommit(p)
        \/ MassDeactivateCall(p)
        \/ MassDeactivateCommit(p)

SpecCap == InitCap /\ [][NextCap]_vars

\* ------------------------------------------------------------- properties
MergedIn(prID) ==
    prID \in DOMAIN pull_requests /\ pull_requests[prID].status = StatusMerged

\* C1: in every reachable state no pull request has its own author among its
\* assigned reviewers.
C1_AuthorNeverReviewer ==
    \A a \in assigned_reviewers : a[2] # pull_requests[a[1]].author_id

\* A Reassign succeeded on a pull request whose author was an active member
\* of the team the replacement was drawn from.
C1_Witness ==
    /\ last.op = "Reassign" /\ last.err = Nil
    /\ LET author == pull_requests[last.pr].author_id IN
       /\ users[author].is_active
       /\ users[author].team_name = users[last.replacement].team_name
       /\ last.replacement \in ReviewersIn(assigned_reviewers, last.pr)

\* C2: a Reassign call made on a pull request that is MERGED returns
\* ErrPRMerged, and a Reassign in flight when the merge committed commits no
\* change: its commit step leaves the assignments as they are and it returns
\* ErrPRMerged (or the serialization error, when its attempts are used up).
C2_MergedRejectsReassign ==
    [][\A p \in Procs :
          /\ (/\ tx[p].op = "idle" /\ tx'[p].op = "idle" /\ last'.op = "Reassign"
              /\ MergedIn(last'.pr)
              /\ ReassignCall(p))
                => last'.err = ErrPRMerged
          /\ (/\ tx[p].op = "Reassign" /\ MergedIn(tx[p].pr)
              /\ ReassignCommit(p))
                => /\ assigned_reviewers' = assigned_reviewers
                   /\ tx'[p].op = "idle"
                   /\ last'.err \in {ErrPRMerged, ErrSerialization}]_vars

\* A Reassign that had read the pull request as OPEN was failed by the merge,
\* retried, and returned ErrPRMerged.
C2_Witness ==
    /\ last.op = "Reassign" /\ last.err = ErrPRMerged /\ last.attempts >= 1
    /\ MergedIn(last.pr)
    /\ <<last.pr, last.old>> \in assigned_reviewers

\* C3: no step changes the assignment set of a pull request that is MERGED.
C3_MergedAssignmentsFrozen ==
    [][\A prID \in DOMAIN pull_requests :
          pull_requests[prID].status = StatusMerged
              => ReviewersIn(assigned_reviewers', prID) = ReviewersIn(assigned_reviewers, prID)]_vars

\* MassDeactivate of a team succeeded and a merged pull request still has a
\* reviewer of that team.
C3_Witness ==
    /\ last.op = "MassDeactivate" /\ last.err = Nil
    /\ \E prID \in DOMAIN pull_requests :
          /\ pull_requests[prID].status = StatusMerged
          /\ \E u \in ReviewersIn(assigned_reviewers, prID) :
                users[u].team_name = last.team /\ ~users[u].is_active

\* C4: MergePR on an existing pull request returns MERGED and the stored
\* merged_at without error; on a pull request that is already MERGED it
\* returns the merged_at stored before and leaves the stored state unchanged.
C4_MergeIdempotent ==
    [][\A p \in Procs :
          (last'.op = "MergePR" /\ last'.err = Nil /\ MergePR(p))
              => /\ last'.status = StatusMerged
                 /\ last'.merged_at = pull_requests'[last'.pr].merged_at
                 /\ MergedIn(last'.pr)
                       => /\ last'.merged_at = pull_requests[last'.pr].merged_at
                          /\ db' = db]_vars

\* A second MergePR returned a merged_at older than the time of the call.
C4_Witness ==
    /\ last.op = "MergePR" /\ last.err = Nil
    /\ last.status = StatusMerged
    /\ last.merged_at # NullTime /\ last.merged_at < clock

\* C5: merged_at is unset exactly while the status is OPEN, a merged_at that
\* is set never changes, and every MergePR that returns without error returns
\* the stored merged_at.
C5_MergedAtSetOnce ==
    /\ [](\A id \in DOMAIN pull_requests :
             pull_requests[id].merged_at = NullTime <=> pull_requests[id].status = StatusOpen)
    /\ [][\A id \in DOMAIN pull_requests :
             pull_requests[id].merged_at # NullTime
                 => pull_requests'[id].merged_at = pull_requests[id].merged_at]_vars
    /\ [][\A p \in Procs :
             (last'.op = "MergePR" /\ last'.err = Nil /\ MergePR(p))
                 => last'.merged_at = pull_requests'[last'.pr].merged_at]_vars

\* Two calls were in flight while the pull request was merged, and a later
\* MergePR returned the merged_at of the first merge.
C5_Witness ==
    /\ last.op = "MergePR" /\ last.err = Nil
    /\ last.merged_at # NullTime /\ last.merged_at < clock
    /\ \E q \in Procs : tx[q].op # "idle"

\* The step in which process p commits a Reassign and returns its result.
ReassignSucceeds(p) ==
    /\ tx[p].op = "Reassign" /\ tx'[p].op = "idle"
    /\ last'.op = "Reassign" /\ last'.err = Nil
    /\ ReassignCommit(p)

\* C6: the step that commits a successful Reassign(pr, old) returning new
\* removes old from pr's assignment set, adds new, which was not in it and is
\* listed once in the result, keeps the size of the set, the size the call
\* read included, and leaves every other pull request's set unchanged.
C6_ReassignPostcondition ==
    [][\A p \in Procs :
          ReassignSucceeds(p) =>
              LET pr == last'.pr
                  old == last'.old
                  new == last'.replacement
                  before == ReviewersIn(assigned_reviewers, pr)
                  after == ReviewersIn(assigned_reviewers', pr)
              IN  /\ old \in before /\ old \notin after
                  /\ new \notin before /\ new \in after
                  /\ Cardinality({i \in 1..Len(last'.reviewers) : last'.reviewers[i] = new}) = 1
                  /\ Range(last'.reviewers) = after
                  /\ Cardinality(after) = Cardinality(before)
                  /\ Cardinality(after) = Len(tx[p].currentReviewers)
                  /\ \A other \in DOMAIN pull_requests \ {pr} :
                        ReviewersIn(assigned_reviewers', other)
                            = ReviewersIn(assigned_reviewers, other)]_vars

\* A Reassign succeeded at its first attempt and the reviewer it replaced is
\* still assigned to another pull request.
C6_Witness ==
    /\ last.op = "Reassign" /\ last.err = Nil /\ last.attempts = 0
    /\ \E other \in DOMAIN pull_requests \ {last.pr} : <<other, last.old>> \in assigned_reviewers
    /\ <<last.pr, last.replacement>> \in assigned_reviewers

\* C7: Reassign calls on one pull request take effect one after the other.
\* A Reassign in flight that can still commit has read the reviewer list and
\* the status that are stored now; the step that commits one fails every
\* other Reassign in flight on the same pull request, so that call reads
\* again: it cannot replace the same old reviewer, insert the same new one,
\* or change the size of the set.  A call returns the serialization error
\* only after its third attempt failed.
C7_ReassignSerial ==
    /\ [](\A p \in Procs :
             (tx[p].op = "Reassign" /\ ~tx[p].doomed)
                 => /\ tx[p].currentReviewers = listReviewers(tx[p].pr)
                    /\ pull_requests[tx[p].pr].status = StatusOpen
                    /\ <<tx[p].pr, tx[p].old>> \in assigned_reviewers
                    /\ <<tx[p].pr, tx[p].replacement>> \notin assigned_reviewers)
    /\ [][\A p \in Procs :
             ReassignSucceeds(p) =>
                 /\ ~tx[p].doomed
                 /\ \A q \in Procs \ {p} :
                       (tx[q].op = "Reassign" /\ tx[q].pr = tx[p].pr) => tx'[q].doomed]_vars
    /\ [](last.op = "Reassign" /\ last.err = ErrSerialization
             => last.attempts = MaxAttempts - 1)

\* Two calls replaced the same reviewer: the second was failed by the first
\* one's commit, read again and found the reviewer no longer assigned.
C7_Witness ==
    /\ last.op = "Reassign" /\ last.err = ErrNotAssigned /\ last.attempts >= 1
    /\ pull_requests[last.pr].status = StatusOpen
    /\ Cardinality(ReviewersIn(assigned_reviewers, last.pr)) >= 1

\* The step in which process p commits a MassDeactivate and returns.
MassDeactivateSucceeds(p) ==
    /\ tx[p].op = "MassDeactivate" /\ tx'[p].op = "idle"
    /\ last'.op = "MassDeactivate" /\ last'.err = Nil
    /\ MassDeactivateCommit(p)

\* C8: in the state committed by a successful MassDeactivate(T) no pull
\* request with status OPEN has an assigned reviewer whose team is T.
C8_NoTeamReviewerLeft ==
    [][\A p \in Procs :
          MassDeactivateSucceeds(p) =>
              \A a \in assigned_reviewers' :
                  pull_requests'[a[1]].status = StatusOpen
                      => users'[a[2]].team_name # last'.team]_vars

\* C9: a CreatePR or Reassign that commits right after MassDeactivate(T)
\* committed assigns no member of T: every member of T is inactive then.
C9_NoAssignmentAfterMassDeactivate ==
    [][(last.op = "MassDeactivate" /\ last.err = Nil)
          => \A a \in assigned_reviewers' \ assigned_reviewers :
                users[a[2]].team_name # last.team]_vars

\* C10: a CreatePR call that returns while its id is already used returns
\* ErrPRExists and leaves the pull requests and assignments unchanged,
\* whether the id was used before the call or by a concurrent CreatePR.
C10_DuplicateCreateIsErrPRExists ==
    [][\A p \in Procs :
          /\ (/\ tx[p].op = "idle" /\ tx'[p].op = "idle" /\ last'.op = "CreatePR"
              /\ last'.pr \in DOMAIN pull_requests
              /\ CreatePRCall(p))
                => /\ last'.err = ErrPRExists
                   /\ UNCHANGED <<pull_requests, assigned_reviewers>>
          /\ (/\ tx[p].op = "CreatePR" /\ tx[p].pc = "insert"
              /\ tx[p].pr \in DOMAIN pull_requests
              /\ CreatePRInsert(p))
                => /\ last'.err = ErrPRExists
                   /\ UNCHANGED <<pull_requests, assigned_reviewers>>]_vars

\* C11: CreatePR is atomic.  Every assignment row belongs to a stored pull
\* request; the step in which a pull request row appears is the return of a
\* successful CreatePR of that id, and the rows then assigned to it are
\* exactly the reviewers returned; a CreatePR that returns an error (a failed
\* check, a unique violation, a cancelled request) changes neither table.
C11_CreatePRAtomic ==
    /\ [](\A a \in assigned_reviewers : a[1] \in DOMAIN pull_requests)
    /\ [][\A id \in DOMAIN pull_requests' \ DOMAIN pull_requests :
             /\ last'.op = "CreatePR" /\ last'.err = Nil /\ last'.pr = id
             /\ ReviewersIn(assigned_reviewers', id) = Range(last'.reviewers)
             /\ Cardinality(ReviewersIn(assigned_reviewers', id)) = Len(last'.reviewers)]_vars
    /\ [][\A p \in Procs :
             (/\ tx'[p].op = "idle" /\ last'.op = "CreatePR" /\ last'.err # Nil
              /\ CreatePRCall(p) \/ CreatePRInsert(p))
                 => UNCHANGED <<pull_requests, assigned_reviewers>>]_vars

\* A CreatePR was cancelled after its checks, with every user active, and
\* left no pull request of its id and no assignment behind.
C11_Witness ==
    /\ last.op = "CreatePR" /\ last.err = ErrCanceled
    /\ last.pr \notin DOMAIN pull_requests
    /\ ReviewersIn(assigned_reviewers, last.pr) = {}
    /\ Cardinality({u \in DOMAIN users : users[u].is_active}) = NumUsers

Min(a, b) == IF a < b THEN a ELSE b

\* The active members of a team other than one user.
ActiveTeammates(teamName, userID) ==
    {u \in DOMAIN users : /\ users[u].team_name = teamName
                          /\ users[u].is_active
                          /\ u # userID}

\* C12: a successful CreatePR stores the pull request with status OPEN and
\* assigns exactly min(2, n) distinct reviewers, n being the number of active
\* members of the author's team other than the author; each of them is such
\* a member.
C12_CreatePRAssignsUpToTwo ==
    [][\A p \in Procs :
          (/\ tx[p].op = "CreatePR" /\ last'.op = "CreatePR" /\ last'.err = Nil
           /\ CreatePRInsert(p))
              => LET id == last'.pr
                     author == tx[p].author
                     mates == ActiveTeammates(users[author].team_name, author)
                     assigned == ReviewersIn(assigned_reviewers', id)
                 IN  /\ pull_requests'[id].status = StatusOpen
                     /\ pull_requests'[id].author_id = author
                     /\ Cardinality(assigned) = Min(2, Cardinality(mates))
                     /\ assigned \subseteq mates
                     /\ Range(last'.reviewers) = assigned
                     /\ Len(last'.reviewers) = Cardinality(assigned)]_vars

\* A CreatePR whose author has three active teammates returned two reviewers.
C12_Witness ==
    /\ last.op = "CreatePR" /\ last.err = Nil
    /\ Len(last.reviewers) = 2
    /\ Cardinality(ActiveTeammates(users[pull_requests[last.pr].author_id].team_name,
                                   pull_requests[last.pr].author_id)) = 3

\* C13: the sequence pickCandidates returns has no duplicates, holds only
\* active members of the team that are neither the excluded id nor in the
\* block set, and is as long as limit allows: min(limit, number of such
\* members), so empty, without error, when there is none.
C13_PickCandidatesContract ==
    last.op = "pickCandidates" =>
        LET eligible == ActiveTeammates(last.teamName, last.exclude) \ last.block
        IN  /\ last.err = Nil
            /\ Len(last.ids) <= last.limit
            /\ Cardinality(Range(last.ids)) = Len(last.ids)
            /\ Range(last.ids) \subseteq eligible
            /\ Len(last.ids) = Min(last.limit, Cardinality(eligible))

\* pickCandidates cut three eligible members down to a limit of two, with an
\* excluded id and a blocked id in the team.
C13_Witness ==
    /\ last.op = "pickCandidates"
    /\ last.limit = 2 /\ Len(last.ids) = 2
    /\ Cardinality(ActiveTeammates(last.teamName, last.exclude) \ last.block) = 3

\* C14: the new reviewer a successful Reassign(pr, old) returns is an active
\* user of the team of old, and is neither the author of pr, nor old, nor a
\* reviewer of pr before the call.
C14_ReplacementFromTeamOfOld ==
    [][\A p \in Procs :
          ReassignSucceeds(p) =>
              LET new == last'.replacement
                  old == last'.old
              IN  /\ new \in DOMAIN users
                  /\ users[new].is_active
                  /\ users[new].team_name = users[old].team_name
                  /\ new # pull_requests[last'.pr].author_id
                  /\ new # old
                  /\ new \notin ReviewersIn(assigned_reviewers, last'.pr)]_vars

\* A Reassign succeeded for a reviewer who is no longer in the author's team:
\* the replacement came from the reviewer's team.
C14_Witness ==
    /\ last.op = "Reassign" /\ last.err = Nil
    /\ users[last.old].team_name # users[pull_requests[last.pr].author_id].team_name
    /\ users[last.replacement].team_name = users[last.old].team_name

\* The error of the first check of Reassign(prID, old) that fails in the
\* current state, in the order the contract gives; Nil when none fails.
FirstFailedCheck(prID, old) ==
    IF prID \notin DOMAIN pull_requests THEN ErrPRNotFound
    ELSE IF pull_requests[prID].status = StatusMerged THEN ErrPRMerged
    ELSE IF old \notin DOMAIN users THEN ErrUserNotFound
    ELSE IF <<prID, old>> \notin assigned_reviewers THEN ErrNotAssigned
    ELSE IF ~ \E u \in DOMAIN users :
                /\ users[u].team_name = users[old].team_name
                /\ users[u].is_active
                /\ u \notin ReviewersIn(assigned_reviewers, prID)
                          \cup {old, pull_requests[prID].author_id}
         THEN ErrNoCandidate
    ELSE Nil

\* C15: Reassign(pr, old) returns the error of the first failing check in the
\* order ErrPRNotFound, ErrPRMerged, ErrUserNotFound, ErrNotAssigned,
\* ErrNoCandidate, and succeeds when no check fails, unless the storage fails
\* inside replaceReviewer.
C15_ReassignCheckOrder ==
    [][\A p \in Procs :
          /\ \A prID \in PRIDs, old \in UserIDs :
                 tx[p].op = "idle" /\ ReassignAttempt(p, prID, old, 0)
                     /\ UNCHANGED <<teams, users, pull_requests, assigned_reviewers, clock>>
                 => IF FirstFailedCheck(prID, old) = Nil
                    THEN tx'[p].op = "Reassign" /\ tx'[p].pr = prID /\ tx'[p].old = old
                    ELSE /\ tx'[p].op = "idle"
                         /\ last'.op = "Reassign" /\ last'.pr = prID /\ last'.old = old
                         /\ last'.err = FirstFailedCheck(prID, old)
          /\ tx[p].op = "Reassign" /\ ReassignCommit(p)
                 => last'.op = "Reassign" /\ last'.err \in {Nil, ErrStorageFault}]_vars

\* Reassign returned ErrUserNotFound for a user id that is also not assigned
\* to the pull request: the earlier check decided.
C15_Witness ==
    /\ last.op = "Reassign" /\ last.err = ErrUserNotFound
    /\ last.old \notin DOMAIN users
    /\ <<last.pr, last.old>> \notin assigned_reviewers
    /\ ReviewersIn(assigned_reviewers, last.pr) # {}

\* The scenario's users u1, u2, u3.
ScenarioUsers == {1, 2, 3}

\* The scenario's team: u1, u2 and u3 are registered, active members of
\* backend, and there is no other user.
BackendAllActive ==
    /\ "backend" \in teams
    /\ DOMAIN users = ScenarioUsers
    /\ \A u \in ScenarioUsers : users[u].team_name = "backend" /\ users[u].is_active

\* The scenario's pull request: OPEN, and reviewed by everyone but its author.
ReviewedByAllOthers(prID) ==
    /\ prID \in DOMAIN pull_requests
    /\ pull_requests[prID].status = StatusOpen
    /\ ReviewersIn(assigned_reviewers, prID) = ScenarioUsers \ {pull_requests[prID].author_id}

\* C16: with backend = {u1, u2, u3} all active, CreatePR(pr1, author u1)
\* assigns exactly u2 and u3; a Reassign of either of them then returns
\* ErrNoCandidate and changes nothing, since the blocklist (current reviewers,
\* old, author) covers the whole team.
C16_ScenarioNoCandidate ==
    [][\A p \in Procs :
          /\ BackendAllActive /\ tx[p].op = "CreatePR" /\ last'.op = "CreatePR"
                 /\ last'.err = Nil /\ CreatePRInsert(p)
                 => \E prID \in PRIDs : prID = last'.pr /\ ReviewedByAllOthers(prID)'
          /\ \A prID \in PRIDs, old \in ScenarioUsers :
                 BackendAllActive /\ ReviewedByAllOthers(prID)
                     /\ old # pull_requests[prID].author_id
                     /\ tx[p].op = "idle" /\ ReassignAttempt(p, prID, old, 0)
                     /\ UNCHANGED <<teams, users, pull_requests, assigned_reviewers, clock>>
                 => /\ last' = [op |-> "Reassign", pr |-> prID, old |-> old,
                                err |-> ErrNoCandidate, attempts |-> 0]
                    /\ tx'[p].op = "idle"]_vars

\* The scenario was played: Reassign of a reviewer of the pull request that
\* everyone but the author reviews returned ErrNoCandidate.
C16_Witness ==
    /\ BackendAllActive
    /\ last.op = "Reassign" /\ last.err = ErrNoCandidate
    /\ ReviewedByAllOthers(last.pr)
    /\ <<last.pr, last.old>> \in assigned_reviewers
    /\ Cardinality(ReviewersIn(assigned_reviewers, last.pr)) = 2

\* C16 as stated: in the scenario the first Reassign of one of the two
\* reviewers passes its checks and goes on to replace the reviewer.
C16_FirstReassignSucceeds ==
    [][\A p \in Procs : \A prID \in PRIDs, old \in ScenarioUsers :
          BackendAllActive /\ ReviewedByAllOthers(prID)
              /\ old # pull_requests[prID].author_id
              /\ tx[p].op = "idle" /\ ReassignAttempt(p, prID, old, 0)
              /\ UNCHANGED <<teams, users, pull_requests, assigned_reviewers, clock>>
          => tx'[p].op = "Reassign"]_vars

\* C17: in every committed state, every assignment row references a user
\* whose active flag is true.
C17_NoInactiveReviewer ==
    \A a \in assigned_reviewers : a[2] \in DOMAIN users /\ users[a[2]].is_active

\* C18: a successful MassDeactivate(T) sets is_active=false for every user of
\* team T and for no one else, changes no name and no team, and an OPEN pull
\* request all of whose reviewers belong to T ends with zero reviewers.
C18_MassDeactivateFrame ==
    [][\A p \in Procs :
          MassDeactivateSucceeds(p) =>
              LET T == last'.team IN
              /\ DOMAIN users' = DOMAIN users
              /\ \A u \in DOMAIN users :
                     users'[u] = IF users[u].team_name = T
                                 THEN [users[u] EXCEPT !.is_active = FALSE]
                                 ELSE users[u]
              /\ \A prID \in DOMAIN pull_requests :
                     /\ pull_requests[prID].status = StatusOpen
                     /\ \A r \in ReviewersIn(assigned_reviewers, prID) :
                            users[r].team_name = T
                     => ReviewersIn(assigned_reviewers', prID) = {}]_vars

\* MassDeactivate(T) succeeded: T has several members, all inactive, a user of
\* another team is still active, and an OPEN pull request of T has no reviewer.
C18_Witness ==
    /\ last.op = "MassDeactivate" /\ last.err = Nil
    /\ Cardinality(TeamMembers(users, last.team)) >= 2
    /\ \A u \in TeamMembers(users, last.team) : ~users[u].is_active
    /\ \E u \in DOMAIN users : users[u].team_name # last.team /\ users[u].is_active
    /\ \E prID \in DOMAIN pull_requests :
           /\ pull_requests[prID].status = StatusOpen
           /\ users[pull_requests[prID].author_id].team_name = last.team
           /\ ReviewersIn(assigned_reviewers, prID) = {}

\* The assignments MassDeactivate(T) invalidates: OPEN pull request, reviewer in T.
Invalidated(T) ==
    {a \in assigned_reviewers :
        pull_requests[a[1]].status = StatusOpen /\ users[a[2]].team_name = T}

\* The members of T that are active when the replacement for a reviewer of
\* prID is selected, i.e. after step 2 has deactivated the team, and that are
\* neither a current reviewer of prID nor its author.
ReplacementCandidates(T, prID) ==
    LET view == deactivateUsersTx(users, T) IN
    {u \in DOMAIN view :
        /\ view[u].team_name = T /\ view[u].is_active
        /\ u \notin ReviewersIn(assigned_reviewers, prID) \cup {pull_requests[prID].author_id}}

C20_MassDeactivateAtomic ==
    [][\A p \in Procs :
          (\/ /\ tx[p].op = "idle"
              /\ tx'[p].op = "MassDeactivate" \/ last'.op = "MassDeactivate"
              /\ MassDeactivateCall(p)
           \/ /\ tx[p].op = "MassDeactivate"
              /\ MassDeactivateCommit(p))
          => IF tx[p].op = "MassDeactivate" /\ tx'[p].op = "idle" /\ last'.err = Nil
             THEN /\ \A u \in tx[p].members : ~users'[u].is_active
                  /\ \A a \in tx[p].assignments : <<a[1], a[3]>> \notin assigned_reviewers'
             ELSE UNCHANGED <<users, assigned_reviewers>>]_vars

\* MassDeactivate(T) gave up with a serialization failure after its last
\* attempt while T has an active member who reviews an OPEN pull request.
C20_Witness ==
    /\ last.op = "MassDeactivate" /\ last.err = ErrSerialization
    /\ last.attempts = MaxAttempts - 1
    /\ \E a \in assigned_reviewers :
           /\ pull_requests[a[1]].status = StatusOpen
           /\ users[a[2]].team_name = last.team /\ users[a[2]].is_active

\* C21: each wrapped call runs its body at most 3 times (attempts 0, 1, 2),
\* the loop step after the 3rd attempt returns that attempt's error (or its
\* success), and every call in flight returns.
C21_AtMostThreeAttempts ==
    /\ [](\A p \in Procs : tx[p].op = "loop" => tx[p].attempts \in 0..(MaxAttempts - 1))
    /\ [][\A p \in Procs :
             tx[p].op = "loop" /\ tx[p].pc = "ended" /\ tx[p].attempts = MaxAttempts - 1
                 /\ LoopStep(p)
             => /\ tx'[p].op = "idle"
                /\ last' = [op |-> tx[p].name, err |-> tx[p].err,
                            attempts |-> MaxAttempts - 1, ctxErr |-> tx[p].ctxErr]]_vars
    /\ \A p \in FirstProc : (tx[p].op = "loop") ~> (tx[p].op = "idle")

\* CreatePR returned the serialization failure of its 3rd attempt.
C21_Witness ==
    /\ last.op = "CreatePR" /\ last.attempts = MaxAttempts - 1
    /\ isSerializationError(last.err)
    /\ \A p \in Procs : tx[p].op = "idle"

\* The errors the contract lists as non-transient: the sentinel errors,
\* cancellation, and storage faults that no classifier recognises.
NonTransient ==
    {ErrTeamExists, ErrPRExists, ErrUserNotFound, ErrPRNotFound, ErrTeamNotFound,
     ErrPRMerged, ErrNotAssigned, ErrNoCandidate,
     ErrCanceled, ErrDeadlineExceeded, ErrStorageFault, ErrDuplicateKey}

\* C22: when an attempt of a wrapped call ends with a non-transient error,
\* the next step of the loop returns that error, without another attempt.
C22_NonTransientReturnsAtOnce ==
    [][\A p \in Procs :
          tx[p].op = "loop" /\ tx[p].pc = "ended" /\ tx[p].err \in NonTransient
              /\ LoopStep(p)
          => /\ tx'[p].op = "idle"
             /\ last'.op = tx[p].name /\ last'.err = tx[p].err
             /\ last'.attempts = tx[p].attempts]_vars

\* Reassign returned ErrNoCandidate from its second attempt, the first
\* having been retried.
C22_Witness ==
    /\ last.op = "Reassign" /\ last.err = ErrNoCandidate /\ last.attempts = 1
    /\ \A p \in Procs : tx[p].op = "idle"

\* C23: for each of the four wrapped calls, an attempt that ends with a
\* serialization failure or with sql.ErrTxDone while attempts remain is
\* followed by another attempt.
C23_TransientIsRetried ==
    [][\A p \in Procs :
          tx[p].op = "loop" /\ tx[p].pc = "ended"
              /\ tx[p].err \in {ErrSerialization, ErrCouldNotSerialize, ErrTxDone}
              /\ tx[p].attempts < MaxAttempts - 1
              /\ LoopStep(p)
          => /\ tx'[p].op = "loop" /\ tx'[p].pc = "begin"
             /\ tx'[p].attempts = tx[p].attempts + 1]_vars

\* C24: an AddTeam whose name is already registered returns ErrTeamExists and
\* changes no row; an AddTeam that succeeds registers a name that was not
\* registered, so of two calls with the same new name only one succeeds.
C24_DuplicateTeamRejected ==
    [][\A p \in Procs :
          /\ tx[p].op = "idle" /\ tx'[p].op = "idle" /\ last'.op = "AddTeam"
                 /\ AddTeamInsert(p)
                 => /\ last'.team \in teams
                    /\ last'.err = ErrTeamExists
                    /\ UNCHANGED <<teams, users, pull_requests, assigned_reviewers>>
          /\ tx[p].op = "AddTeam" /\ last'.op = "AddTeam" /\ last'.err = Nil
                 /\ AddTeamCommit(p)
                 => /\ tx[p].team \notin teams /\ tx[p].team \in teams'
                    /\ \A q \in Procs \ {p} :
                           ~(tx[q].op = "AddTeam" /\ tx[q].team = tx[p].team)]_vars

\* AddTeam returned ErrTeamExists for a team that has members, while the
\* other client is in the middle of registering the other team.
C24_Witness ==
    /\ last.op = "AddTeam" /\ last.err = ErrTeamExists
    /\ TeamMembers(users, last.team) # {}
    /\ \E q \in Procs : tx[q].op = "AddTeam" /\ tx[q].team # last.team

\* The users table the contract promises after AddTeam(teamName, members):
\* an entry overrides the earlier entries of its id, entries with an empty id
\* are skipped, every listed id gets the team, every other row is kept.
RECURSIVE UsersAfterAddTeam(_, _, _)
UsersAfterAddTeam(us, members, teamName) ==
    IF members = <<>> THEN us
    ELSE LET m == Head(members)
             row == [username |-> m.username, is_active |-> m.is_active,
                     team_name |-> teamName]
             next == IF m.user_id = EmptyID THEN us
                     ELSE [u \in DOMAIN us \cup {m.user_id} |->
                              IF u = m.user_id THEN row ELSE us[u]]
         IN  UsersAfterAddTeam(next, Tail(members), teamName)

\* C25: the users table holds one row per non-empty user id and every row
\* references a registered team; for every payload the upsert of addTeamOnce
\* gives the table in which each listed id has the name and flag of its last
\* entry and the team of the call; an AddTeam that succeeds leaves such a
\* table, and one that is rolled back leaves the table as it was.
C25_AddTeamUpsert ==
    /\ [](/\ \A u \in DOMAIN users : u # EmptyID /\ users[u].team_name \in teams
          /\ \A teamName \in TeamNames, members \in MemberLists :
                 Upsert(users, Unique(members), teamName)
                     = UsersAfterAddTeam(users, members, teamName))
    /\ [][\A p \in Procs :
             tx[p].op = "AddTeam" /\ last'.op = "AddTeam" /\ AddTeamCommit(p)
             => IF last'.err = Nil
                THEN \E members \in MemberLists :
                         users' = UsersAfterAddTeam(users, members, tx[p].team)
                ELSE UNCHANGED <<teams, users>>]_vars

\* AddTeam succeeded; its team has an active and an inactive member, and the
\* other team is registered but has no member left.
C25_Witness ==
    /\ last.op = "AddTeam" /\ last.err = Nil
    /\ teams = TeamNames
    /\ \E u, v \in TeamMembers(users, last.team) :
           users[u].is_active /\ ~users[v].is_active
    /\ \A u \in DOMAIN users : users[u].team_name = last.team

C27_StatusMonotone ==
    /\ [](\A id \in DOMAIN pull_requests :
              pull_requests[id].status \in {StatusOpen, StatusMerged})
    /\ [][/\ \A id \in DOMAIN pull_requests' \ DOMAIN pull_requests :
                 pull_requests'[id].status = StatusOpen
          /\ \A id \in DOMAIN pull_requests :
                 /\ id \in DOMAIN pull_requests'
                 /\ pull_requests[id].status = StatusMerged
                        => pull_requests'[id].status = StatusMerged]_vars

\* A pull request is MERGED and the CreatePR that tried to create it again
\* has returned an error.
C27_Witness ==
    /\ last.op = "CreatePR" /\ last.err # Nil
    /\ MergedIn(last.pr)

\* C28: whenever an attempt of a wrapped call has ended, with success, a
\* sentinel error, a storage error or a context error, and whenever the loop
\* is about to start another attempt, no transaction of the call is open.
C28_NoOpenTransactionAfterAttempt ==
    \A p \in Procs :
        tx[p].op = "loop" /\ tx[p].pc \in {"begin", "ended"} => ~tx[p].open

\* An attempt of Reassign ended with ErrNoCandidate under a live context: the
\* deferred Rollback has closed its transaction.
C28_Witness ==
    \E p \in Procs :
        /\ tx[p].op = "loop" /\ tx[p].name = "Reassign" /\ tx[p].pc = "ended"
        /\ tx[p].err = ErrNoCandidate /\ tx[p].ctxErr = Nil
        /\ ~tx[p].open

\* C29: an attempt that the cancellation or the deadline of the request
\* context has failed (a statement or Commit returned ctx.Err(), or Commit
\* returned sql.ErrTxDone because the transaction was already rolled back)
\* ends the call at once, with an error that maps to CLIENT_CLOSED.
C29_CancellationSurfacesAtOnce ==
    [][\A p \in Procs :
          tx[p].op = "loop" /\ tx[p].pc = "ended" /\ tx[p].ctxErr # Nil
              /\ tx[p].err \in {tx[p].ctxErr, ErrTxDone}
              /\ LoopStep(p)
          => /\ tx'[p].op = "idle"
             /\ mapErrorWithLog(last'.err) = "CLIENT_CLOSED"]_vars

\* C30: SetUserActive(u, b) on an existing user sets the active flag of u to
\* b and returns the row of u; every other user, the name and the team of u,
\* the teams, the pull requests and the assignments stay as they were.  On
\* an unknown id it returns ErrUserNotFound and changes nothing.
C30_SetUserActiveFrame ==
    [][\A p \in Procs : \A userID \in UserIDs, isActive \in BOOLEAN :
          tx[p].op = "idle" /\ last'.op = "SetUserActive"
              /\ SetUserActiveWith(p, userID, isActive)
          => /\ UNCHANGED <<teams, pull_requests, assigned_reviewers>>
             /\ IF userID \in DOMAIN users
                THEN /\ users' = [u \in DOMAIN users |->
                                     IF u = userID
                                     THEN [username |-> users[u].username,
                                           is_active |-> isActive,
                                           team_name |-> users[u].team_name]
                                     ELSE users[u]]
                     /\ last' = [op |-> "SetUserActive", user |-> userID, err |-> Nil,
                                 row |-> users'[userID]]
                ELSE /\ UNCHANGED users
                     /\ last' = [op |-> "SetUserActive", user |-> userID,
                                 err |-> ErrUserNotFound]]_vars

\* SetUserActive(u, false) returned the inactive user, who is still assigned
\* to an OPEN pull request.
C30_Witness ==
    /\ last.op = "SetUserActive" /\ last.err = Nil
    /\ ~last.row.is_active /\ ~users[last.user].is_active
    /\ \E a \in assigned_reviewers :
           a[2] = last.user /\ pull_requests[a[1]].status = StatusOpen

\* C31: GetTeam(name) returns ErrTeamNotFound exactly when no user has name as
\* team and name is not a registered team; a registered team without members
\* gives the empty list and no error; otherwise the result lists every user
\* whose team is name, each once, in ascending order of user id.
C31_GetTeamResult ==
    [][\A p \in Procs :
          (/\ tx[p].op \in {"idle", "GetTeam"}
           /\ tx'[p].op = "idle"
           /\ last'.op = "GetTeam"
           /\ (GetTeamCall(p) \/ GetTeamExists(p)))
          => LET name == last'.team
                 got  == last'.members
                 M    == {u \in DOMAIN users' : users'[u].team_name = name}
             IN  /\ last'.err \in {Nil, ErrTeamNotFound}
                 /\ (last'.err = ErrTeamNotFound) <=> (M = {} /\ name \notin teams')
                 /\ last'.err = Nil =>
                        /\ {got[i] : i \in 1..Len(got)} = M
                        /\ \A i, j \in 1..Len(got) : i < j => got[i] < got[j]
      ]_vars

C31_Witness ==
    /\ last.op = "GetTeam"
    /\ last.err = Nil
    /\ Len(last.members) >= 2
    /\ \E u \in DOMAIN users : users[u].team_name # last.team

\* C32: UserReviews(u) returns ErrUserNotFound when u is not a user; otherwise
\* it returns exactly the pull requests, OPEN or MERGED, to which u is assigned
\* at the time of the query, each once, in ascending order of pull request id.
C32_UserReviewsResult ==
    [][\A p \in Procs :
          (/\ tx[p].op \in {"idle", "UserReviews"}
           /\ tx'[p].op = "idle"
           /\ last'.op = "UserReviews"
           /\ (UserReviewsCall(p) \/ UserReviewsQuery(p)))
          => LET u   == last'.user
                 got == last'.prs
             IN  /\ last'.err \in {Nil, ErrUserNotFound}
                 /\ (last'.err = ErrUserNotFound) <=> (u \notin DOMAIN users')
                 /\ last'.err = Nil =>
                        /\ {got[i].pr_id : i \in 1..Len(got)}
                               = {id \in DOMAIN pull_requests' : <<id, u>> \in assigned_reviewers'}
                        /\ \A i, j \in 1..Len(got) : i < j => got[i].pr_id < got[j].pr_id
                        /\ \A i \in 1..Len(got) :
                               got[i].status = pull_requests'[got[i].pr_id].status
      ]_vars

C32_Witness ==
    /\ last.op = "UserReviews"
    /\ last.err = Nil
    /\ Len(last.prs) = 2
    /\ last.prs[1].status = StatusMerged
    /\ last.prs[2].status = StatusOpen

\* C33: when no write runs during the call, Stats returns an entry for every
\* registered user, users without assignments included with 0; each entry is
\* the number of assignment rows of that user; OpenPRs is the number of OPEN
\* pull requests and MergedPRs the number of MERGED ones.
C33_StatsQuiescent ==
    [][\A p \in Procs :
          (/\ tx[p].op = "Stats"
           /\ last'.op = "Stats"
           /\ StatsMerged(p))
          => /\ last'.err = Nil
             /\ DOMAIN last'.AssignmentsPerUser = DOMAIN users'
             /\ \A u \in DOMAIN users' :
                    last'.AssignmentsPerUser[u]
                        = Cardinality({a \in assigned_reviewers' : a[2] = u})
             /\ last'.OpenPRs
                    = Cardinality({id \in DOMAIN pull_requests' :
                                       pull_requests'[id].status = StatusOpen})
             /\ last'.MergedPRs
                    = Cardinality({id \in DOMAIN pull_requests' :
                                       pull_requests'[id].status = StatusMerged})
      ]_vars

C33_Witness ==
    /\ last.op = "Stats"
    /\ \E u, v \in DOMAIN last.AssignmentsPerUser :
           /\ last.AssignmentsPerUser[u] = 0
           /\ last.AssignmentsPerUser[v] = 1
    /\ last.OpenPRs = 0
    /\ last.MergedPRs = 1

\* The sentinel errors of the storage package, and the other errors a call
\* can return.
C34_KnownErrors ==
    {ErrTeamExists, ErrPRExists, ErrPRMerged, ErrNotAssigned, ErrNoCandidate,
     ErrUserNotFound, ErrPRNotFound, ErrTeamNotFound}

C34_OtherErrors ==
    {ErrSerialization, ErrDuplicateKey, ErrTxDone, ErrCouldNotSerialize, ErrStorageFault}

\* The table of mapErrorWithLog, code and HTTP status.
C34_Table ==
    /\ mapErrorWithLog(ErrTeamExists) = "TEAM_EXISTS" /\ mapErrorStatus(ErrTeamExists) = 400
    /\ mapErrorWithLog(ErrPRExists) = "PR_EXISTS" /\ mapErrorStatus(ErrPRExists) = 409
    /\ mapErrorWithLog(ErrPRMerged) = "PR_MERGED" /\ mapErrorStatus(ErrPRMerged) = 409
    /\ mapErrorWithLog(ErrNotAssigned) = "NOT_ASSIGNED" /\ mapErrorStatus(ErrNotAssigned) = 409
    /\ mapErrorWithLog(ErrNoCandidate) = "NO_CANDIDATE" /\ mapErrorStatus(ErrNoCandidate) = 409
    /\ \A e \in {ErrUserNotFound, ErrPRNotFound, ErrTeamNotFound} :
           mapErrorWithLog(e) = "NOT_FOUND" /\ mapErrorStatus(e) = 404
    /\ \A e \in C34_KnownErrors \cup C34_OtherErrors \cup {ErrCanceled, ErrDeadlineExceeded} :
           /\ (mapErrorWithLog(e) = "INTERNAL") <=> (mapErrorStatus(e) = 500)
           /\ mapErrorWithLog(e) = "INTERNAL" => e \notin C34_KnownErrors

\* C34: the mapping from storage errors to codes is total and keeps the kinds
\* apart: ErrTeamExists is TEAM_EXISTS (400), ErrPRExists PR_EXISTS (409),
\* ErrPRMerged PR_MERGED (409), ErrNotAssigned NOT_ASSIGNED (409),
\* ErrNoCandidate NO_CANDIDATE (409), the three not-found errors NOT_FOUND
\* (404), and only errors of none of these kinds are INTERNAL (500); a
\* business-rule outcome of an operation is never reported as INTERNAL: a
\* CreatePR that returns while its id is in use is reported as PR_EXISTS.
C34_ErrorMapping ==
    [][/\ C34_Table
       /\ \A p \in Procs :
              (/\ tx[p].op = "CreatePR"
               /\ tx[p].pc = "insert"
               /\ tx[p].pr \in DOMAIN pull_requests
               /\ last'.op = "CreatePR"
               /\ CreatePRInsert(p))
              => mapErrorWithLog(last'.err) = "PR_EXISTS"
      ]_vars

\* C35: CreatePR evaluates its checks in a fixed order and returns the error
\* of the first that fails, writing nothing: ErrPRExists if the id is used,
\* even when the author does not exist; else ErrUserNotFound if the author is
\* not a user; else ErrTeamNotFound if the author's team is not registered;
\* otherwise the call goes on to pick reviewers.
C35_CreatePRCheckOrder ==
    [][\A p \in Procs, id \in PRIDs, author \in UserIDs :
          (tx[p].op = "idle" /\ CreatePRCallWith(p, id, author))
          => LET expected ==
                     IF id \in DOMAIN pull_requests THEN ErrPRExists
                     ELSE IF author \notin DOMAIN users THEN ErrUserNotFound
                     ELSE IF users[author].team_name \notin teams THEN ErrTeamNotFound
                     ELSE Nil
             IN  /\ UNCHANGED <<teams, users, pull_requests, assigned_reviewers>>
                 /\ expected # Nil =>
                        /\ last' = [op |-> "CreatePR", pr |-> id, err |-> expected]
                        /\ tx'[p].op = "idle"
                 /\ expected = Nil =>
                        /\ tx'[p].op = "CreatePR"
                        /\ tx'[p].pr = id
                        /\ tx'[p].author = author
                        /\ last' = last
      ]_vars

C35_Witness ==
    /\ last.op = "CreatePR"
    /\ last.err = ErrPRExists
    /\ last.pr \in DOMAIN pull_requests
    /\ UserIDs \ DOMAIN users # {}

\* C36: a Reassign call that returns an error (ErrPRNotFound, ErrPRMerged,
\* ErrUserNotFound, ErrNotAssigned, ErrNoCandidate, a storage fault between
\* the DELETE and the INSERT, a serialization failure after the last attempt)
\* changes no assignment, and neither does an attempt that is retried; the
\* old reviewer's row is removed only in the step that inserts the
\* replacement.
C36_FailedReassignChangesNothing ==
    [][\A p \in Procs :
          (/\ tx[p].op \in {"idle", "Reassign"}
           /\ (ReassignCall(p) \/ ReassignCommit(p)))
          => LET succeeded == /\ tx'[p].op = "idle"
                              /\ last'.op = "Reassign"
                              /\ last'.err = Nil
             IN  /\ ~succeeded => assigned_reviewers' = assigned_reviewers
                 /\ succeeded =>
                        /\ assigned_reviewers \ assigned_reviewers' = {<<last'.pr, last'.old>>}
                        /\ assigned_reviewers' \ assigned_reviewers
                               = {<<last'.pr, last'.replacement>>}
      ]_vars

C36_Witness ==
    /\ last.op = "Reassign"
    /\ last.err = ErrStorageFault
    /\ <<last.pr, last.old>> \in assigned_reviewers

\* C37: the figures of one Stats call describe a single committed state even
\* when CreatePR and MergePR commit while the call runs.  Pull requests are
\* never deleted, so in every state that existed during the call there were
\* at most as many as when the call returns: OpenPRs + MergedPRs, with no
\* pull request counted both as OPEN and as MERGED, is at most that number.
C37_StatsSingleState ==
    [][\A p \in Procs :
          (/\ tx[p].op = "Stats"
           /\ last'.op = "Stats"
           /\ StatsMerged(p))
          => last'.OpenPRs + last'.MergedPRs <= Cardinality(DOMAIN pull_requests')
      ]_vars

C39_ReviewerCap ==
    /\ [](\A prID \in DOMAIN pull_requests :
             /\ Cardinality(ReviewersIn(assigned_reviewers, prID)) <= 2
             /\ \A i, j \in 1..Len(listReviewers(prID)) :
                    i # j => listReviewers(prID)[i] # listReviewers(prID)[j])
    /\ [][\A prID \in DOMAIN pull_requests :
             Cardinality(ReviewersIn(assigned_reviewers', prID))
                 <= Cardinality(ReviewersIn(assigned_reviewers, prID))]_vars

\* A Reassign succeeded on a pull request that keeps two reviewers while an
\* active user of the same team is neither its author nor a reviewer of it.
C39_Witness ==
    /\ last.op = "Reassign" /\ last.err = Nil
    /\ last.pr \in DOMAIN pull_requests
    /\ Cardinality(ReviewersIn(assigned_reviewers, last.pr)) = 2
    /\ \E u \in DOMAIN users :
           /\ users[u].is_active
           /\ users[u].team_name = users[pull_requests[last.pr].author_id].team_name
           /\ u # pull_requests[last.pr].author_id
           /\ u \notin ReviewersIn(assigned_reviewers, last.pr)

====
